---------------------------- MODULE Spec2Model ----------------------------
(***************************************************************************)
(* Model of airflow-docker/dags/order_analytics_dag.py: the daily ETL run  *)
(* extract_transform_load, which ensures the two reporting tables exist,   *)
(* aggregates the "order" table per product and per calendar date, and     *)
(* upserts the aggregates into product_performance and daily_trends.       *)
(*                                                                         *)
(* The data store is external: the "order" table is written by another     *)
(* system at any time, also between two steps of one run, because every    *)
(* step opens its own connection and commits on its own.                   *)
(***************************************************************************)
EXTENDS Integers, Sequences, FiniteSets, Bags, TLC

\* ------------------------------------------------------------------ bounds
\* At most MaxOrders rows in the "order" table.
MaxOrders == 2
\* CURRENT_DATE ranges over 0..MaxDay.
MaxDay == 1

\* ------------------------------------------------------------ input domains
Products == {"A", "B"}
Amounts == {1, 2}
\* created_at is a timestamp: a calendar date and a time of day.
Timestamps == {[date |-> 0, time |-> 0], [date |-> 0, time |-> 1], [date |-> 1, time |-> 0]}
OrderRows == [product : Products, amount : Amounts, created_at : Timestamps]

VARIABLES
    orders,      \* the source table "order": a bag of rows
    schema,      \* table name -> definition, for the destination tables that exist
    pp,          \* rows of product_performance
    dt,          \* rows of daily_trends
    today,       \* CURRENT_DATE of the store
    pc,          \* "idle", "running", "complete", "failed": state of the task
    step,        \* number of calls extract_transform_load has returned from
    log,         \* logging.info lines of the current run
    error,       \* exception raised in the current run, "none" if none
    wasEmpty,    \* both destination tables held no row when the current run started
    srcChanged,  \* the source was modified while the current run was running
    prevClean    \* the last run ended without a store outage, over the source as it is now

vars == <<orders, schema, pp, dt, today, pc, step, log, error, wasEmpty, srcChanged, prevClean>>

\* --------------------------------------------------------------- helpers
Range(s) == {s[i] : i \in 1..Len(s)}

RECURSIVE Gcd(_, _)
Gcd(a, b) == IF b = 0 THEN a ELSE Gcd(b, a % b)

\* All the orders in which a result set can be returned.
Orderings(S) == {s \in [1..Cardinality(S) -> S] : Range(s) = S}

\* ------------------------------------------------------------ SQL aggregates
RECURSIVE CountRows(_, _)
\* COUNT(*) over the rows of bag B that are in S.
CountRows(S, B) ==
    IF S = {} THEN 0
    ELSE LET r == CHOOSE x \in S : TRUE
         IN CopiesIn(r, B) + CountRows(S \ {r}, B)

RECURSIVE SumAmount(_, _)
\* SUM(amount) over the rows of bag B that are in S.
SumAmount(S, B) ==
    IF S = {} THEN 0
    ELSE LET r == CHOOSE x \in S : TRUE
         IN r.amount * CopiesIn(r, B) + SumAmount(S \ {r}, B)

\* AVG(amount): the exact quotient total / count, as a fraction in lowest terms.
Avg(total, count) ==
    LET g == Gcd(total, count)
    IN <<total \div g, count \div g>>

\* DATE(created_at): the calendar-date part of a timestamp.
Date(ts) == ts.date

\* SELECT product, COUNT(*), SUM(amount), AVG(amount) FROM "order" GROUP BY product
ProductPerformanceQuery(B) ==
    LET rows == BagToSet(B)
        Group(p) == {r \in rows : r.product = p}
    IN {<<p, CountRows(Group(p), B), SumAmount(Group(p), B),
          Avg(SumAmount(Group(p), B), CountRows(Group(p), B))>> :
            p \in {r.product : r \in rows}}

RECURSIVE SortByFirst(_)
\* ORDER BY order_date, the first column of each result row.
SortByFirst(S) ==
    IF S = {} THEN <<>>
    ELSE LET m == CHOOSE x \in S : \A y \in S : x[1] <= y[1]
         IN <<m>> \o SortByFirst(S \ {m})

\* SELECT DATE(created_at) AS order_date, COUNT(*), SUM(amount) FROM "order"
\* GROUP BY order_date ORDER BY order_date
DailyTrendsQuery(B) ==
    LET rows == BagToSet(B)
        Group(d) == {r \in rows : Date(r.created_at) = d}
    IN SortByFirst({<<d, CountRows(Group(d), B), SumAmount(Group(d), B)>> :
                        d \in {Date(r.created_at) : r \in rows}})


\* ---------------------------------------------------------------- the store
TableNames == {"product_performance", "daily_trends"}

\* The two CREATE TABLE statements of create_tables.
TableDefinition(t) ==
    IF t = "product_performance"
    THEN [columns |-> <<"product", "order_count", "total_sales", "avg_sales", "report_date">>,
          primary_key |-> "product"]
    ELSE [columns |-> <<"order_date", "daily_orders", "daily_sales">>,
          primary_key |-> "order_date"]

\* CREATE TABLE t (no IF NOT EXISTS): an existing table is an error.
CreateTableStrict(sch, t) ==
    IF t \in DOMAIN sch
    THEN [err |-> "DuplicateTable", schema |-> sch]
    ELSE [err |-> "none",
          schema |-> [x \in DOMAIN sch \cup {t} |-> IF x = t THEN TableDefinition(t) ELSE sch[x]]]

\* CREATE TABLE IF NOT EXISTS t: an existing table is left as it is.
CreateTableIfNotExists(sch, t) ==
    IF t \in DOMAIN sch
    THEN [err |-> "none", schema |-> sch]
    ELSE [err |-> "none",
          schema |-> [x \in DOMAIN sch \cup {t} |-> IF x = t THEN TableDefinition(t) ELSE sch[x]]]

\* create_tables: both statements in one transaction, committed together; an
\* error in either rolls the transaction back.
CreateTablesResult(sch) ==
    LET first == CreateTableIfNotExists(sch, "product_performance")
        second == CreateTableIfNotExists(first.schema, "daily_trends")
    IN IF first.err # "none" THEN [err |-> first.err, schema |-> sch]
       ELSE IF second.err # "none" THEN [err |-> second.err, schema |-> sch]
       ELSE second

\* The target column lists of the two INSERT statements.
PPInsertColumns == <<"product", "order_count", "total_sales", "avg_sales", "report_date">>
DTInsertColumns == <<"order_date", "daily_orders", "daily_sales">>

\* The ON CONFLICT ... DO UPDATE SET clauses: column -> source of the new value.
PPConflictSet == [order_count |-> "EXCLUDED", total_sales |-> "EXCLUDED",
                  avg_sales |-> "EXCLUDED", report_date |-> "CURRENT_DATE"]
DTConflictSet == [daily_orders |-> "EXCLUDED", daily_sales |-> "EXCLUDED"]

\* data.append((product, order_count, total_sales, avg_sales))
PPBatchRow(row) == <<row[1], row[2], row[3], row[4]>>
\* data.append((order_date, daily_orders, daily_sales))
DTBatchRow(row) == <<row[1], row[2], row[3]>>

\* The row a VALUES tuple proposes for insertion.
Proposed(columns, tuple) ==
    [c \in Range(columns) |-> tuple[CHOOSE i \in 1..Len(columns) : columns[i] = c]]

\* INSERT without conflict handling into a table without its key: rows pile up.
InsertRowsAppend(table, pk, columns, conflictSet, data, now) ==
    table \cup {Proposed(columns, data[i]) : i \in 1..Len(data)}

\* INSERT ... ON CONFLICT (pk) DO UPDATE SET ...: a proposed row whose key is
\* free is inserted; one whose key is taken updates the row that holds the key.
InsertRows(table, pk, columns, conflictSet, data, now) ==
    LET new == {Proposed(columns, data[i]) : i \in 1..Len(data)}
        Taken(n) == \E r \in table : r[pk] = n[pk]
        Updated(n) ==
            LET old == CHOOSE r \in table : r[pk] = n[pk]
            IN [c \in DOMAIN old |->
                   IF c \notin DOMAIN conflictSet THEN old[c]
                   ELSE IF conflictSet[c] = "EXCLUDED" THEN n[c] ELSE now]
    IN {r \in table : \A n \in new : n[pk] # r[pk]}
         \cup {IF Taken(n) THEN Updated(n) ELSE n : n \in new}

\* execute_values(cur, upsert_query, data); conn.commit(): one statement whose
\* VALUES list holds every tuple of data.  The statement is rejected when the
\* table is missing, or when a tuple has not one expression per target column.
ExecuteValues(sch, t, table, columns, conflictSet, data, now) ==
    IF t \notin DOMAIN sch THEN [err |-> "UndefinedTable", rows |-> table]
    ELSE IF \E i \in 1..Len(data) : Len(data[i]) # Len(columns)
    THEN [err |-> "SyntaxError", rows |-> table]
    ELSE [err |-> "none",
          rows |-> InsertRows(table, sch[t].primary_key, columns, conflictSet, data, now)]

\* upsert_product_performance from "if data:" on.
WriteProductPerformance(sch, table, data, now) ==
    IF data # <<>>
    THEN ExecuteValues(sch, "product_performance", table, PPInsertColumns, PPConflictSet, data, now)
    ELSE [err |-> "none", rows |-> table]

\* A full refresh instead of an upsert: the table is emptied, then filled.
WriteDailyTrendsRefresh(sch, table, data, now) ==
    ExecuteValues(sch, "daily_trends", {}, DTInsertColumns, DTConflictSet, data, now)

\* upsert_daily_trends from "if data:" on.
WriteDailyTrends(sch, table, data, now) ==
    IF data # <<>>
    THEN ExecuteValues(sch, "daily_trends", table, DTInsertColumns, DTConflictSet, data, now)
    ELSE [err |-> "none", rows |-> table]

\* ------------------------------------------------------- extract_transform_load
\* The calls extract_transform_load makes, in the other order.
StepsSchemaLast == <<"upsert_product_performance", "upsert_daily_trends", "create_tables">>

\* The calls extract_transform_load makes, in order.
Steps == <<"create_tables", "upsert_product_performance", "upsert_daily_trends">>

Completed == {Steps[i] : i \in 1..step}

\* The call the running task is about to make.
AtStep(name) == pc = "running" /\ step < Len(Steps) /\ Steps[step + 1] = name

\* A try/except around each call that logs the exception and carries on.
AfterCallSwallow(err) == [pc |-> "running", step |-> step + 1]

\* Where the task stands after a call: an exception is not caught anywhere, so
\* it ends the task; a normal return is followed by the next statement.
AfterCall(err) ==
    IF err = "none" THEN [pc |-> "running", step |-> step + 1]
    ELSE [pc |-> "failed", step |-> step]

\* prevClean once a run has ended with err.
CleanEnd(err) == ~srcChanged /\ err # "OperationalError"

Control(err) ==
    /\ pc' = AfterCall(err).pc
    /\ step' = AfterCall(err).step
    /\ error' = IF err # "none" THEN err ELSE error
    /\ prevClean' = IF AfterCall(err).pc = "failed" THEN CleanEnd(err) ELSE prevClean

Init ==
    /\ orders = EmptyBag
    /\ schema = <<>>
    /\ pp = {}
    /\ dt = {}
    /\ today = 0
    /\ pc = "idle"
    /\ step = 0
    /\ log = <<>>
    /\ error = "none"
    /\ wasEmpty = TRUE
    /\ srcChanged = FALSE
    /\ prevClean = FALSE

\* The scheduler invokes the task (daily, or as a retry):
\* logging.info("Starting ETL Process").
StartRun ==
    /\ pc = "idle"
    /\ pc' = "running"
    /\ step' = 0
    /\ log' = <<"Starting ETL Process">>
    /\ error' = "none"
    /\ wasEmpty' = (pp = {} /\ dt = {})
    /\ srcChanged' = FALSE
    /\ UNCHANGED <<orders, schema, pp, dt, today, prevClean>>

\* create_tables()
CreateTables ==
    /\ AtStep("create_tables")
    /\ \E outage \in BOOLEAN :
          LET res == IF outage THEN [err |-> "OperationalError", schema |-> schema]
                     ELSE CreateTablesResult(schema)
          IN /\ schema' = res.schema
             /\ Control(res.err)
    /\ UNCHANGED <<orders, pp, dt, today, log, wasEmpty, srcChanged>>

\* upsert_product_performance()
UpsertProductPerformance ==
    /\ AtStep("upsert_product_performance")
    /\ \E outage \in {"none", "read", "write"} :
          IF outage = "read"
          THEN /\ Control("OperationalError")
               /\ UNCHANGED <<pp, log>>
          ELSE \E results \in Orderings(ProductPerformanceQuery(orders)) :
                  LET data == [i \in 1..Len(results) |-> PPBatchRow(results[i])]
                      res == IF outage = "write" /\ data # <<>>
                             THEN [err |-> "OperationalError", rows |-> pp]
                             ELSE WriteProductPerformance(schema, pp, data, today)
                  IN /\ log' = log \o <<"Product Performance Report:">>
                                   \o [i \in 1..Len(results) |-> "Product:"]
                     /\ pp' = res.rows
                     /\ Control(res.err)
    /\ UNCHANGED <<orders, schema, dt, today, wasEmpty, srcChanged>>

\* upsert_daily_trends()
UpsertDailyTrends ==
    /\ AtStep("upsert_daily_trends")
    /\ \E outage \in {"none", "read", "write"} :
          IF outage = "read"
          THEN /\ Control("OperationalError")
               /\ UNCHANGED <<dt, log>>
          ELSE LET results == DailyTrendsQuery(orders)
                   data == [i \in 1..Len(results) |-> DTBatchRow(results[i])]
                   res == IF outage = "write" /\ data # <<>>
                          THEN [err |-> "OperationalError", rows |-> dt]
                          ELSE WriteDailyTrends(schema, dt, data, today)
               IN /\ log' = log \o <<"Daily Trends Report:">>
                                \o [i \in 1..Len(results) |-> "Date:"]
                  /\ dt' = res.rows
                  /\ Control(res.err)
    /\ UNCHANGED <<orders, schema, pp, today, wasEmpty, srcChanged>>

\* logging.info("ETL Process Completed Successfully"), and the task returns.
Finish ==
    /\ pc = "running"
    /\ step = Len(Steps)
    /\ pc' = "complete"
    /\ log' = log \o <<"ETL Process Completed Successfully">>
    /\ prevClean' = CleanEnd(error)
    /\ UNCHANGED <<orders, schema, pp, dt, today, step, error, wasEmpty, srcChanged>>

\* The task instance is over; the scheduler holds the task until it invokes it
\* again, and nothing of the instance but the store and the clock remains.
TaskExit ==
    /\ pc \in {"complete", "failed"}
    /\ pc' = "idle"
    /\ step' = 0
    /\ log' = <<>>
    /\ error' = "none"
    /\ wasEmpty' = (pp = {} /\ dt = {})
    /\ srcChanged' = FALSE
    /\ UNCHANGED <<orders, schema, pp, dt, today, prevClean>>

\* The transactional system places an order: before a run, or between two steps
\* of one.  (A change while an ended task waits to exit is the same change made
\* right after the exit, so it is taken there.)
InsertOrder ==
    /\ pc \in {"idle", "running"}
    /\ BagCardinality(orders) < MaxOrders
    /\ \E r \in OrderRows : orders' = orders (+) SetToBag({r})
    /\ srcChanged' = (pc = "running")
    /\ prevClean' = FALSE
    /\ UNCHANGED <<schema, pp, dt, today, pc, step, log, error, wasEmpty>>

\* The transactional system removes an order.
DeleteOrder ==
    /\ pc \in {"idle", "running"}
    /\ \E r \in BagToSet(orders) : orders' = orders (-) SetToBag({r})
    /\ srcChanged' = (pc = "running")
    /\ prevClean' = FALSE
    /\ UNCHANGED <<schema, pp, dt, today, pc, step, log, error, wasEmpty>>

\* Midnight passes; a run is short and does not span it.
NextDay ==
    /\ pc = "idle"
    /\ today < MaxDay
    /\ today' = today + 1
    /\ UNCHANGED <<orders, schema, pp, dt, pc, step, log, error, wasEmpty, srcChanged, prevClean>>

Next ==
    \/ StartRun
    \/ CreateTables
    \/ UpsertProductPerformance
    \/ UpsertDailyTrends
    \/ Finish
    \/ TaskExit
    \/ InsertOrder
    \/ DeleteOrder
    \/ NextDay

Spec == Init /\ [][Next]_vars

TypeOK ==
    /\ IsABag(orders) /\ BagToSet(orders) \subseteq OrderRows
    /\ BagCardinality(orders) <= MaxOrders
    /\ DOMAIN schema \subseteq TableNames
    /\ today \in 0..MaxDay
    /\ pc \in {"idle", "running", "complete", "failed"}
    /\ step \in 0..Len(Steps)
    /\ error \in {"none", "OperationalError", "SyntaxError", "UndefinedTable", "DuplicateTable"}
    /\ srcChanged \in BOOLEAN
    /\ prevClean \in BOOLEAN
    /\ wasEmpty \in BOOLEAN

\* ------------------------------------------------------------------ claims
Ended == pc \in {"complete", "failed"}

\* The running task makes the call `name` in this step.
Executes(name) == AtStep(name) /\ (pc' # pc \/ step' # step)

\* The run is over, met no store outage, and read the source as it is now.
RanOver == Ended /\ error # "OperationalError" /\ ~srcChanged

OrdersOfProduct(p) == {r \in BagToSet(orders) : r.product = p}
OrdersOfDate(d) == {r \in BagToSet(orders) : Date(r.created_at) = d}
ProductsOfSource == {r.product : r \in BagToSet(orders)}
DatesOfSource == {Date(r.created_at) : r \in BagToSet(orders)}

\* The row of product p holds the aggregates of the source, computed on day d.
IsProductRow(r, p, d) ==
    /\ r.product = p
    /\ r.order_count = CountRows(OrdersOfProduct(p), orders)
    /\ r.total_sales = SumAmount(OrdersOfProduct(p), orders)
    /\ r.avg_sales[1] * r.order_count = r.total_sales * r.avg_sales[2]
    /\ r.report_date = d

\* The row of date d holds the aggregates of the source.
IsDateRow(r, d) ==
    /\ r.order_date = d
    /\ r.daily_orders = CountRows(OrdersOfDate(d), orders)
    /\ r.daily_sales = SumAmount(OrdersOfDate(d), orders)

StartMarker == "Starting ETL Process"
CompletionMarker == "ETL Process Completed Successfully"

\* C1: after a run over a non-empty source, started on empty destination
\* tables, product_performance holds exactly one row per product of the source,
\* with that product's count, sum and mean, dated the day of the run.
C1_ProductRowsAfterRun ==
    (RanOver /\ wasEmpty /\ orders # EmptyBag) =>
        /\ {r.product : r \in pp} = ProductsOfSource
        /\ Cardinality(pp) = Cardinality(ProductsOfSource)
        /\ \A r \in pp : IsProductRow(r, r.product, today)

\* C2: after a run over a non-empty source, started on empty destination
\* tables, daily_trends holds exactly one row per calendar date of the source,
\* with that date's count and sum.
C2_DateRowsAfterRun ==
    (RanOver /\ wasEmpty /\ orders # EmptyBag) =>
        /\ {r.order_date : r \in dt} = DatesOfSource
        /\ Cardinality(dt) = Cardinality(DatesOfSource)
        /\ \A r \in dt : IsDateRow(r, r.order_date)

\* The rows of product_performance without their report_date.
Undated(table) ==
    {[product |-> r.product, order_count |-> r.order_count,
      total_sales |-> r.total_sales, avg_sales |-> r.avg_sales] : r \in table}

\* C3: the second of two runs over an unchanged source changes no key and no
\* aggregate of either table, and when it is over every product of the source
\* has its row dated the day of the second run.
C3_RerunOverwrites ==
    [][ /\ (pc = "running" /\ prevClean) =>
              (Undated(pp') = Undated(pp) /\ dt' = dt)
        /\ (pc = "running" /\ prevClean /\ pc' \in {"complete", "failed"} /\ prevClean') =>
              \A p \in ProductsOfSource :
                  \E r \in pp' : r.product = p /\ r.report_date = today'
      ]_vars

\* The run read an empty source in both queries: no row line was logged.
SawNoRows == "Product:" \notin Range(log) /\ "Date:" \notin Range(log)

\* C4: an upsert step that reads an empty source writes nothing, so every row
\* of both tables stays as it was, and the step does not fail unless the store
\* is out; a run fails without an outage only after it has read some row.
C4_EmptySourceNoWrite ==
    /\ [][ ((Executes("upsert_product_performance") \/ Executes("upsert_daily_trends"))
              /\ orders = EmptyBag) =>
               /\ pp' = pp /\ dt' = dt
               /\ (error' # "OperationalError" => pc' = "running" /\ error' = "none")
         ]_vars
    /\ [](pc = "failed" /\ error # "OperationalError" => ~SawNoRows)

\* A run over an empty source has completed and left the rows it found.
C4_Witness ==
    /\ pc = "complete"
    /\ log = <<StartMarker, "Product Performance Report:", "Daily Trends Report:", CompletionMarker>>
    /\ orders = EmptyBag
    /\ dt # {}

\* C5: no two rows of product_performance share a product, no two rows of
\* daily_trends share an order_date, and one step creates or modifies at most
\* one row per key.
C5_OneRowPerKey ==
    /\ [](/\ \A r1, r2 \in pp : r1.product = r2.product => r1 = r2
          /\ \A r1, r2 \in dt : r1.order_date = r2.order_date => r1 = r2)
    /\ [][ /\ \A r1, r2 \in pp' \ pp : r1.product = r2.product => r1 = r2
           /\ \A r1, r2 \in dt' \ dt : r1.order_date = r2.order_date => r1 = r2
         ]_vars

\* A completed run upserted one date into a table that held a row, and the
\* table still holds one row: the row of that date was updated in place.
C5_Witness ==
    /\ pc = "complete"
    /\ ~wasEmpty
    /\ Cardinality(dt) = 1
    /\ Len(SelectSeq(log, LAMBDA l : l = "Date:")) = 1

\* C6: a run deletes no row: a row whose key is not in the source stays as it
\* is, and after the run every key of the source has its row holding the newly
\* computed values.
C6_NoPruningAndOverwrite ==
    /\ [][ pc = "running" =>
               /\ \A r \in pp : r.product \notin ProductsOfSource => r \in pp'
               /\ \A r \in dt : r.order_date \notin DatesOfSource => r \in dt'
         ]_vars
    /\ [](RanOver =>
               /\ \A p \in ProductsOfSource : \E r \in pp : IsProductRow(r, p, today)
               /\ \A d \in DatesOfSource : \E r \in dt : IsDateRow(r, d))

\* C7: a step reads the source or writes a destination table only after
\* create_tables has returned in this run and both tables exist; daily_trends is
\* written only after upsert_product_performance has returned; the completion
\* marker is logged only after the three calls have returned.
C7_StepOrder ==
    /\ [][ /\ (\/ Executes("upsert_product_performance")
               \/ Executes("upsert_daily_trends")
               \/ pp' # pp
               \/ dt' # dt) =>
                  ("create_tables" \in Completed /\ TableNames \subseteq DOMAIN schema)
           /\ (Executes("upsert_daily_trends") \/ dt' # dt) =>
                  "upsert_product_performance" \in Completed
         ]_vars
    /\ [](CompletionMarker \in Range(log) => Completed = Range(Steps))

\* A run has written daily_trends and logged the completion marker.
C7_Witness ==
    /\ pc = "complete"
    /\ CompletionMarker \in Range(log)
    /\ "Date:" \in Range(log)
    /\ dt # {}

\* C8: once a call has raised, the task is in "failed" and stays there until it
\* exits: the completion marker is not logged, no further call is made, and
\* neither the failing call nor anything after it changes the store, so what
\* was committed before stays committed.
C8_FailureAborts ==
    /\ [](error # "none" => pc = "failed" /\ CompletionMarker \notin Range(log))
    /\ [][ /\ error # "none" =>
                  (pc' = "idle" /\ UNCHANGED <<schema, pp, dt>>)
           /\ (error = "none" /\ error' # "none") =>
                  (UNCHANGED <<schema, pp, dt, step>> /\ pc' = "failed")
         ]_vars

\* upsert_daily_trends has failed after create_tables and
\* upsert_product_performance returned; the tables they left are in the store.
C8_Witness ==
    /\ pc = "failed"
    /\ error = "OperationalError"
    /\ Completed = {"create_tables", "upsert_product_performance"}
    /\ "Date:" \in Range(log)
    /\ TableNames \subseteq DOMAIN schema

\* C9: create_tables, unless the store is out, raises nothing, changes no row,
\* leaves the schema as it is when both tables exist, and leaves a store on
\* which a further create_tables changes nothing.
C9_CreateTablesIdempotent ==
    [][ (Executes("create_tables") /\ error' # "OperationalError") =>
            /\ error' = "none"
            /\ pp' = pp /\ dt' = dt
            /\ (TableNames \subseteq DOMAIN schema => schema' = schema)
            /\ \A t \in TableNames : t \in DOMAIN schema' /\ schema'[t] = TableDefinition(t)
            /\ CreateTablesResult(schema') = [err |-> "none", schema |-> schema']
      ]_vars

\* create_tables has returned in a run that found both tables with rows in them.
C9_Witness ==
    /\ pc = "running"
    /\ step = 1
    /\ Completed = {"create_tables"}
    /\ dt # {}

\* C10: when the source has a product group, every tuple of the batch has one
\* value per target column of the INSERT, the fifth being the current date, the
\* write succeeds, and every product of the batch has its row dated today.
C10_BatchMatchesColumns ==
    [][ (Executes("upsert_product_performance") /\ orders # EmptyBag
            /\ error' # "OperationalError") =>
            /\ \A row \in ProductPerformanceQuery(orders) :
                  /\ Len(PPBatchRow(row)) = Len(PPInsertColumns)
                  /\ PPBatchRow(row)[Len(PPInsertColumns)] = today
            /\ error' = "none"
            /\ \A p \in ProductsOfSource : \E r \in pp' : r.product = p /\ r.report_date = today
      ]_vars

=============================================================================
